---- MODULE Spec2Model ----
(***************************************************************************)
(* The duplex real-time transcription bridge of web/app.py:               *)
(* websocket_transcribe (the per-connection handler), the worker thread   *)
(* sync_stream_handler that drives the blocking Soniox stream, and the    *)
(* two coroutines receive_audio (browser -> audio_queue) and send_tokens  *)
(* (token_queue -> browser).                                              *)
(*                                                                         *)
(* The worker is an OS thread (run_in_executor): each of its queue        *)
(* operations, flag reads/writes and backend calls is one step and        *)
(* interleaves freely with the coroutines.  The coroutines run on the     *)
(* event loop; their steps are cut at the awaits and at the accesses to   *)
(* the state shared with the worker thread.                               *)
(***************************************************************************)
EXTENDS Integers, Sequences, FiniteSets, TLC

\* ---------------------------------------------------------------- bounds
MaxChunks == 2      \* audio chunks the browser sends in one session
MaxFrames == 2      \* frames the backend delivers in one session

VARIABLES
    api_key,        \* os.getenv("SONIOX_API_KEY") is set
    sdk_available,  \* SonioxRealtimeClient is not None
    hpc,            \* position of websocket_transcribe
    wpc,            \* position of sync_stream_handler (worker thread)
    rpc,            \* position of receive_audio
    spc,            \* position of send_tokens
    audio_queue,    \* Queue[bytes | None]
    token_queue,    \* Queue[dict | None]
    error_occurred, \* asyncio.Event
    client_state,   \* websocket.client_state.name
    closeCalls,     \* number of websocket.close() calls
    sink,           \* events delivered to the browser by send_json
    nchunks,        \* chunks the browser has sent so far
    audio_data,     \* worker local: item taken from audio_queue
    token,          \* send_tokens local: item taken from token_queue
    connBroken,     \* the backend connection has failed
    backendBuf,     \* frames buffered on stream.websocket.socket
    nframes,        \* frames the backend has delivered so far
    response_data,  \* worker local: frame being handled
    tokIdx,         \* worker local: index in response_data["tokens"]
    sentLog,        \* chunks passed to stream.send_audio, in call order
    endCalls,       \* number of stream.end_stream() calls
    tokenLog,       \* every item ever put on token_queue, in put order
    connCallers,    \* contexts that have called a backend primitive
    exc,            \* worker local: the exception caught by the outer except
    transcript,     \* the transcript loop of examples/realtime_microphone.py
    mic,            \* a MicrophoneCapture and its running capture() generator
    decode,         \* the decoding of one backend message (web/app.py 200-214)
    job             \* the polling loop of transcribe_file_async

webvars == << api_key, sdk_available, hpc, wpc, rpc, spc, audio_queue,
              token_queue, error_occurred, client_state, closeCalls, sink,
              nchunks, audio_data, token, connBroken, backendBuf, nframes,
              response_data, tokIdx, sentLog, endCalls, tokenLog,
              connCallers, exc >>

\* The state outside web/app.py's session: untouched by the bridge.
libvars == << transcript, mic, decode, job >>

vars == << webvars, libvars >>

\* ------------------------------------------------------------ data model
None == 0           \* the sentinel put on audio_queue; chunks are 1, 2, ...
NoData == -1        \* the worker holds no dequeued item

\* An item of token_queue / an event sent to the browser.  text identifies a
\* token as <<frame number, position in the frame>>.
Ev(type, text, message) == [type |-> type, text |-> text, message |-> message]
ReadyEv == Ev("ready", <<>>, "")
ErrorEv(m) == Ev("error", <<>>, m)
TokenEv(f, i) == Ev("token", <<f, i>>, "")
NoneEv == Ev("none", <<>>, "")
NoToken == Ev("unset", <<>>, "")

\* A message received from the backend socket.
\*   kind "text": a JSON object with ntok entries under "tokens" and "status";
\*   kind "malformed": a str that json.loads rejects;
\*   kind "binary": a non-str message.
Frame(id, kind, ntok, status) ==
    [id |-> id, kind |-> kind, ntok |-> ntok, status |-> status]
NoFrame == Frame(0, "none", 0, "none")
FrameShapes ==
    { <<"text", 1, "none">>, <<"text", 2, "none">>,
      <<"text", 0, "error">>, <<"text", 1, "completed">>,
      <<"malformed", 0, "none">>, <<"binary", 0, "none">> }

HasType(q, t) == \E i \in 1..Len(q) : q[i].type = t
CountType(q, t) == Cardinality({ i \in 1..Len(q) : q[i].type = t })

\* ------------------------------------------------------------------ Init
WebInit ==
    /\ api_key \in BOOLEAN
    /\ sdk_available \in BOOLEAN
    /\ hpc = "accept"
    /\ wpc = "idle"
    /\ rpc = "idle"
    /\ spc = "idle"
    /\ audio_queue = <<>>
    /\ token_queue = <<>>
    /\ error_occurred = FALSE
    /\ client_state = "CONNECTED"
    /\ closeCalls = 0
    /\ sink = <<>>
    /\ nchunks = 0
    /\ audio_data = NoData
    /\ token = NoToken
    /\ connBroken = FALSE
    /\ backendBuf = <<>>
    /\ nframes = 0
    /\ response_data = NoFrame
    /\ tokIdx = 0
    /\ sentLog = <<>>
    /\ endCalls = 0
    /\ tokenLog = <<>>
    /\ connCallers = {}
    /\ exc = ""

\* Nothing outside the bridge is running.
Unused == "unused"
LibIdle ==
    transcript = Unused /\ mic = Unused /\ decode = Unused /\ job = Unused

\* The state after websocket.accept() of one connection; nothing else runs.
Init == WebInit /\ LibIdle

\* ---------------------------------------------------- websocket_transcribe
ConfigOK_KeyOnly == api_key

\* The two configuration checks of the handler.
ConfigOK == api_key /\ sdk_available

\* accept(); a missing key or SDK: send one error, close(), return.
Reject ==
    /\ hpc = "accept"
    /\ ~ConfigOK
    /\ sink' = Append(sink,
           ErrorEv(IF ~api_key THEN "SONIOX_API_KEY not configured"
                               ELSE "Soniox SDK not available"))
    /\ closeCalls' = closeCalls + 1
    /\ hpc' = "rejected"
    /\ UNCHANGED << api_key, sdk_available, wpc, rpc, spc, audio_queue,
                    token_queue, error_occurred, client_state, nchunks,
                    audio_data, token, connBroken, backendBuf, nframes,
                    response_data, tokIdx, sentLog, endCalls, tokenLog,
                    connCallers, exc, libvars >>

\* accept(); create the queues and the event; run_in_executor starts the worker.
StartWorker ==
    /\ hpc = "accept"
    /\ ConfigOK
    /\ audio_queue' = <<>>
    /\ token_queue' = <<>>
    /\ error_occurred' = FALSE
    /\ wpc' = "create"
    /\ hpc' = "start"
    /\ UNCHANGED << api_key, sdk_available, rpc, spc, client_state,
                    closeCalls, sink, nchunks, audio_data, token, connBroken,
                    backendBuf, nframes, response_data, tokIdx, sentLog,
                    endCalls, tokenLog, connCallers, exc, libvars >>

\* asyncio.gather schedules receive_audio and send_tokens.
Gather ==
    /\ hpc = "start"
    /\ rpc' = "recv"
    /\ spc' = "drain"
    /\ hpc' = "gather"
    /\ UNCHANGED << api_key, sdk_available, wpc, audio_queue, token_queue,
                    error_occurred, client_state, closeCalls, sink, nchunks,
                    audio_data, token, connBroken, backendBuf, nframes,
                    response_data, tokIdx, sentLog, endCalls, tokenLog,
                    connCallers, exc, libvars >>

ReceiveAudioDone == rpc \in {"done_disconnect", "done_fault"}
SendTokensDone == spc \in {"done_end", "done_error", "done_signal", "done_fault"}

\* gather returns once both coroutines have returned.
GatherDone ==
    /\ hpc = "gather"
    /\ ReceiveAudioDone
    /\ SendTokensDone
    /\ hpc' = "await_future"
    /\ UNCHANGED << api_key, sdk_available, wpc, rpc, spc, audio_queue,
                    token_queue, error_occurred, client_state, closeCalls,
                    sink, nchunks, audio_data, token, connBroken, backendBuf,
                    nframes, response_data, tokIdx, sentLog, endCalls,
                    tokenLog, connCallers, exc, libvars >>

FutureDone_NoWait == TRUE

\* await stream_future resumes once sync_stream_handler has returned.
FutureDone == wpc = "done"

StreamFutureRaises_Reraise == HasType(tokenLog, "error")

\* Whether awaiting stream_future raises: sync_stream_handler catches every
\* Exception itself, and gather runs with return_exceptions=True.
StreamFutureRaises == FALSE

\* await stream_future; the except branch sends one more error event and
\* ignores a failure of that send.
AwaitFuture ==
    /\ hpc = "await_future"
    /\ FutureDone
    /\ sink' = IF StreamFutureRaises /\ client_state = "CONNECTED"
               THEN Append(sink, ErrorEv("handler")) ELSE sink
    /\ hpc' = "finally"
    /\ UNCHANGED << api_key, sdk_available, wpc, rpc, spc, audio_queue,
                    token_queue, error_occurred, client_state, closeCalls,
                    nchunks, audio_data, token, connBroken, backendBuf,
                    nframes, response_data, tokIdx, sentLog, endCalls,
                    tokenLog, connCallers, exc, libvars >>

Set_Toggle(e) == ~e

\* error_occurred.set(): the value of the event after the call
Set(e) == TRUE

ShouldClose_Always(cs) == TRUE

\* if websocket.client_state.name != "DISCONNECTED": await websocket.close()
ShouldClose(cs) == cs # "DISCONNECTED"

\* finally: set the event, close the browser socket unless DISCONNECTED.
Finally ==
    /\ hpc = "finally"
    /\ error_occurred' = Set(error_occurred)
    /\ closeCalls' = IF ShouldClose(client_state) THEN closeCalls + 1
                                                  ELSE closeCalls
    /\ hpc' = "closed"
    /\ UNCHANGED << api_key, sdk_available, wpc, rpc, spc, audio_queue,
                    token_queue, client_state, sink, nchunks, audio_data,
                    token, connBroken, backendBuf, nframes, response_data,
                    tokIdx, sentLog, endCalls, tokenLog, connCallers, exc, libvars >>

Handler == Reject \/ StartWorker \/ Gather \/ GatherDone \/ AwaitFuture \/ Finally

\* ------------------------------------------------------------ queue.Queue
Put_Front(q, x) == <<x>> \o q
Oldest_Newest(q) == q[Len(q)]

\* queue.Queue is FIFO: put appends, get takes the oldest item.
Put(q, x) == Append(q, x)
Oldest(q) == Head(q)
Rest(q)   == Tail(q)

\* ---------------------------------------------- sync_stream_handler (worker)
\* The stream is open: the worker is inside `with client.stream() as stream`.
StreamOpen ==
    wpc \in {"ready", "guard", "get", "send_audio", "end_stream", "poll",
             "tokens", "status", "exit"}

\* Where control goes when the receive-side try block raises: the inner
\* `except Exception: pass` swallows the exception and the loop goes on.
ResponseCheckExcept == "guard"

Raise_Swallow(m) ==
    /\ wpc' = "guard"
    /\ exc' = m

\* Leave the try block with an exception: the outer except reports str(e).
Raise(m) ==
    /\ wpc' = "except"
    /\ exc' = m

\* SonioxRealtimeClient(...)
CreateClient ==
    /\ wpc = "create"
    /\ \E ok \in BOOLEAN :
          IF ok THEN wpc' = "open" /\ UNCHANGED exc
                ELSE Raise("create")
    /\ UNCHANGED << api_key, sdk_available, hpc, rpc, spc, audio_queue,
                    token_queue, error_occurred, client_state, closeCalls,
                    sink, nchunks, audio_data, token, connBroken, backendBuf,
                    nframes, tokIdx, sentLog, endCalls, tokenLog,
                    connCallers,
                    response_data, libvars >>

\* with client.stream() as stream: opening fails on a broken connection.
OpenStream ==
    /\ wpc = "open"
    /\ IF connBroken THEN Raise("open")
                     ELSE wpc' = "ready" /\ UNCHANGED exc
    /\ connCallers' = connCallers \cup {"worker"}
    /\ UNCHANGED << api_key, sdk_available, hpc, rpc, spc, audio_queue,
                    token_queue, error_occurred, client_state, closeCalls,
                    sink, nchunks, audio_data, token, connBroken, backendBuf,
                    nframes, tokIdx, sentLog, endCalls, tokenLog,
                    response_data, libvars >>

\* token_queue.put({"type": "ready"})
PutReady ==
    /\ wpc = "ready"
    /\ token_queue' = Put(token_queue, ReadyEv)
    /\ tokenLog' = Append(tokenLog, ReadyEv)
    /\ wpc' = "guard"
    /\ UNCHANGED << api_key, sdk_available, hpc, rpc, spc, audio_queue,
                    error_occurred, client_state, closeCalls, sink, nchunks,
                    audio_data, token, connBroken, backendBuf, nframes,
                    response_data, tokIdx, sentLog, endCalls, connCallers, exc, libvars >>

LoopContinues_Always == TRUE

\* The loop condition: not error_occurred.is_set()
LoopContinues == ~error_occurred

\* while not error_occurred.is_set():
LoopGuard ==
    /\ wpc = "guard"
    /\ wpc' = IF LoopContinues THEN "get" ELSE "exit"
    /\ UNCHANGED << api_key, sdk_available, hpc, rpc, spc, audio_queue,
                    token_queue, error_occurred, client_state, closeCalls,
                    sink, nchunks, audio_data, token, connBroken, backendBuf,
                    nframes, response_data, tokIdx, sentLog, endCalls,
                    tokenLog, connCallers, exc, libvars >>

OnEmpty_Fatal == "except"

\* except Empty: pass -- the iteration goes on with the response check.
OnEmpty == "poll"

\* audio_queue.get(timeout=0.1): an item, or Empty after the timeout.
GetAudio ==
    /\ wpc = "get"
    /\ IF audio_queue = <<>>
       THEN /\ wpc' = OnEmpty
            /\ UNCHANGED << audio_queue, audio_data >>
       ELSE /\ audio_data' = Oldest(audio_queue)
            /\ audio_queue' = Rest(audio_queue)
            /\ wpc' = IF Oldest(audio_queue) = None THEN "end_stream"
                                                    ELSE "send_audio"
    /\ UNCHANGED << api_key, sdk_available, hpc, rpc, spc, token_queue,
                    error_occurred, client_state, closeCalls, sink, nchunks,
                    token, connBroken, backendBuf, nframes, response_data,
                    tokIdx, sentLog, endCalls, tokenLog, connCallers, exc, libvars >>

EndStreamRaises_Always == TRUE

\* stream.end_stream() raises when the backend connection is broken
EndStreamRaises == connBroken

AfterEndStream_Continue == "poll"

\* break: where the worker goes once end_stream() has returned
AfterEndStream == "exit"

\* stream.end_stream(); break
EndStream ==
    /\ wpc = "end_stream"
    /\ IF EndStreamRaises
       THEN Raise("end_stream") /\ UNCHANGED endCalls
       ELSE /\ endCalls' = endCalls + 1
            /\ wpc' = AfterEndStream
            /\ UNCHANGED exc
    /\ audio_data' = NoData
    /\ connCallers' = connCallers \cup {"worker"}
    /\ UNCHANGED << api_key, sdk_available, hpc, rpc, spc, audio_queue,
                    token_queue, error_occurred, client_state, closeCalls,
                    sink, nchunks, token, connBroken, backendBuf, nframes,
                    tokIdx, sentLog, tokenLog,
                    response_data, libvars >>

\* stream.send_audio(audio_data)
SendAudio ==
    /\ wpc = "send_audio"
    /\ IF connBroken
       THEN Raise("send_audio") /\ UNCHANGED sentLog
       ELSE /\ sentLog' = Append(sentLog, audio_data)
            /\ wpc' = "poll"
            /\ UNCHANGED exc
    /\ audio_data' = NoData
    /\ connCallers' = connCallers \cup {"worker"}
    /\ UNCHANGED << api_key, sdk_available, hpc, rpc, spc, audio_queue,
                    token_queue, error_occurred, client_state, closeCalls,
                    sink, nchunks, token, connBroken, backendBuf, nframes,
                    tokIdx, endCalls, tokenLog,
                    response_data, libvars >>

\* select.select(...) / stream.websocket.recv() / json.loads(message)
Poll ==
    /\ wpc = "poll"
    /\ connCallers' = connCallers \cup {"worker"}
    /\ IF connBroken
       THEN /\ wpc' = ResponseCheckExcept
            /\ UNCHANGED << backendBuf, response_data, tokIdx >>
       ELSE IF backendBuf = <<>>
       THEN /\ wpc' = "guard"
            /\ UNCHANGED << backendBuf, response_data, tokIdx >>
       ELSE LET message == Head(backendBuf) IN
            /\ backendBuf' = Tail(backendBuf)
            /\ IF message.kind = "binary"
               THEN wpc' = "guard" /\ UNCHANGED << response_data, tokIdx >>
               ELSE IF message.kind = "malformed"
               THEN /\ wpc' = ResponseCheckExcept
                    /\ UNCHANGED << response_data, tokIdx >>
               ELSE /\ response_data' = message
                    /\ tokIdx' = IF message.ntok > 0 THEN 1 ELSE 0
                    /\ wpc' = IF message.ntok > 0 THEN "tokens" ELSE "status"
    /\ UNCHANGED << api_key, sdk_available, hpc, rpc, spc, audio_queue,
                    token_queue, error_occurred, client_state, closeCalls,
                    sink, nchunks, audio_data, token, connBroken, nframes,
                    sentLog, endCalls, tokenLog, exc, libvars >>

\* for token_data in response_data["tokens"]: token_queue.put({...})
PutToken ==
    /\ wpc = "tokens"
    /\ LET ev == TokenEv(response_data.id, tokIdx) IN
          /\ token_queue' = Put(token_queue, ev)
          /\ tokenLog' = Append(tokenLog, ev)
    /\ IF tokIdx < response_data.ntok
       THEN tokIdx' = tokIdx + 1 /\ wpc' = "tokens"
       ELSE tokIdx' = 0 /\ wpc' = "status"
    /\ UNCHANGED << api_key, sdk_available, hpc, rpc, spc, audio_queue,
                    error_occurred, client_state, closeCalls, sink, nchunks,
                    audio_data, token, connBroken, backendBuf, nframes,
                    response_data, sentLog, endCalls, connCallers, exc, libvars >>

\* if response_data.get("status") == "error": raise Exception(...)
CheckStatus ==
    /\ wpc = "status"
    /\ wpc' = IF response_data.status = "error" THEN ResponseCheckExcept
                                                 ELSE "guard"
    /\ UNCHANGED << api_key, sdk_available, hpc, rpc, spc, audio_queue,
                    token_queue, error_occurred, client_state, closeCalls,
                    sink, nchunks, audio_data, token, connBroken, backendBuf,
                    nframes, response_data, tokIdx, sentLog, endCalls,
                    tokenLog, connCallers, exc, libvars >>

\* Leaving the with block closes the stream (__exit__); on a broken
\* connection the close may raise.
ExitStream ==
    /\ wpc = "exit"
    /\ connCallers' = connCallers \cup {"worker"}
    /\ \E ok \in BOOLEAN :
          IF ok \/ ~connBroken THEN wpc' = "done" /\ UNCHANGED exc
                               ELSE Raise("exit")
    /\ UNCHANGED << api_key, sdk_available, hpc, rpc, spc, audio_queue,
                    token_queue, error_occurred, client_state, closeCalls,
                    sink, nchunks, audio_data, token, connBroken, backendBuf,
                    nframes, tokIdx, sentLog, endCalls, tokenLog,
                    response_data, libvars >>

\* except Exception as e: token_queue.put({"type": "error", ...})
PutError ==
    /\ wpc = "except"
    /\ LET ev == ErrorEv(exc) IN
          /\ token_queue' = Put(token_queue, ev)
          /\ tokenLog' = Append(tokenLog, ev)
    /\ exc' = ""
    /\ wpc' = "set"
    /\ UNCHANGED << api_key, sdk_available, hpc, rpc, spc, audio_queue,
                    error_occurred, client_state, closeCalls, sink, nchunks,
                    audio_data, token, connBroken, backendBuf, nframes,
                    tokIdx, sentLog, endCalls, connCallers,
                    response_data, libvars >>

\* error_occurred.set(), the last statement of the worker
SetError ==
    /\ wpc = "set"
    /\ error_occurred' = Set(error_occurred)
    /\ wpc' = "done"
    /\ UNCHANGED << api_key, sdk_available, hpc, rpc, spc, audio_queue,
                    token_queue, client_state, closeCalls, sink, nchunks,
                    audio_data, token, connBroken, backendBuf, nframes,
                    response_data, tokIdx, sentLog, endCalls, tokenLog,
                    connCallers, exc, libvars >>

Worker ==
    \/ CreateClient \/ OpenStream \/ PutReady \/ LoopGuard \/ GetAudio
    \/ EndStream \/ SendAudio \/ Poll \/ PutToken \/ CheckStatus
    \/ ExitStream \/ PutError \/ SetError

\* ------------------------------------------------------------ receive_audio
ReceiveChunk_Direct(q, c) == [queue |-> q, conn |-> <<c>>]

\* What receive_audio does with a chunk read from the browser: it puts the
\* chunk on audio_queue and makes no call on the backend connection.
ReceiveChunk(q, c) == [queue |-> Put(q, c), conn |-> <<>>]

\* audio_data = await websocket.receive_bytes(); audio_queue.put(audio_data)
RecvChunk ==
    /\ rpc = "recv"
    /\ client_state = "CONNECTED"
    /\ nchunks < MaxChunks
    /\ nchunks' = nchunks + 1
    /\ LET r == ReceiveChunk(audio_queue, nchunks + 1) IN
          /\ audio_queue' = r.queue
          /\ sentLog' = sentLog \o r.conn
          /\ connCallers' = IF r.conn # <<>> THEN connCallers \cup {"inbound"}
                                             ELSE connCallers
    /\ UNCHANGED << api_key, sdk_available, hpc, wpc, rpc, spc, token_queue,
                    error_occurred, client_state, closeCalls, sink,
                    audio_data, token, connBroken, backendBuf, nframes,
                    response_data, tokIdx, endCalls, tokenLog, exc, libvars >>

\* except WebSocketDisconnect: audio_queue.put(None)
RecvDisconnect ==
    /\ rpc = "recv"
    /\ client_state = "CONNECTED"
    /\ client_state' = "DISCONNECTED"
    /\ audio_queue' = Put(audio_queue, None)
    /\ rpc' = "done_disconnect"
    /\ UNCHANGED << api_key, sdk_available, hpc, wpc, spc, token_queue,
                    error_occurred, closeCalls, sink, nchunks, audio_data,
                    token, connBroken, backendBuf, nframes, response_data,
                    tokIdx, sentLog, endCalls, tokenLog, connCallers, exc, libvars >>

OnReadFault_Skip(q) == q

\* What the except Exception branch of receive_audio does to audio_queue:
\* audio_queue.put(None)
OnReadFault(q) == Put(q, None)

\* except Exception: audio_queue.put(None) ...
RecvFault ==
    /\ rpc = "recv"
    /\ audio_queue' = OnReadFault(audio_queue)
    /\ rpc' = "fault_set"
    /\ UNCHANGED << api_key, sdk_available, hpc, wpc, spc, token_queue,
                    error_occurred, client_state, closeCalls, sink, nchunks,
                    audio_data, token, connBroken, backendBuf, nframes,
                    response_data, tokIdx, sentLog, endCalls, tokenLog,
                    connCallers, exc, libvars >>

\* ... error_occurred.set()
RecvFaultSet ==
    /\ rpc = "fault_set"
    /\ error_occurred' = Set(error_occurred)
    /\ rpc' = "done_fault"
    /\ UNCHANGED << api_key, sdk_available, hpc, wpc, spc, audio_queue,
                    token_queue, client_state, closeCalls, sink, nchunks,
                    audio_data, token, connBroken, backendBuf, nframes,
                    response_data, tokIdx, sentLog, endCalls, tokenLog,
                    connCallers, exc, libvars >>

ReceiveAudio == RecvChunk \/ RecvDisconnect \/ RecvFault \/ RecvFaultSet

\* -------------------------------------------------------------- send_tokens
\* while not token_queue.empty(): token = token_queue.get_nowait();
\* if token is None: return
Drain ==
    /\ spc = "drain"
    /\ IF token_queue = <<>>
       THEN spc' = "flag" /\ UNCHANGED << token_queue, token >>
       ELSE /\ token_queue' = Rest(token_queue)
            /\ IF Oldest(token_queue) = NoneEv
               THEN spc' = "done_end" /\ UNCHANGED token
               ELSE spc' = "send" /\ token' = Oldest(token_queue)
    /\ UNCHANGED << api_key, sdk_available, hpc, wpc, rpc, audio_queue,
                    error_occurred, client_state, closeCalls, sink, nchunks,
                    audio_data, connBroken, backendBuf, nframes,
                    response_data, tokIdx, sentLog, endCalls, tokenLog,
                    connCallers, exc, libvars >>

AfterSend_Continue(tok) == "drain"

\* After a successful send: an error event stops the coroutine.
AfterSend(tok) == IF tok.type = "error" THEN "done_error" ELSE "drain"

\* await websocket.send_json(token); if the send raises, the except branch
\* sets error_occurred.  A send to a disconnected browser raises.
SendJson ==
    /\ spc = "send"
    /\ \E ok \in BOOLEAN :
          IF ok /\ client_state = "CONNECTED"
          THEN /\ sink' = Append(sink, token)
               /\ spc' = AfterSend(token)
               /\ error_occurred' = IF AfterSend(token) = "done_error"
                                    THEN Set(error_occurred)
                                    ELSE error_occurred
          ELSE /\ spc' = "done_fault"
               /\ error_occurred' = Set(error_occurred)
               /\ UNCHANGED sink
    /\ token' = NoToken
    /\ UNCHANGED << api_key, sdk_available, hpc, wpc, rpc, audio_queue,
                    token_queue, client_state, closeCalls, nchunks,
                    audio_data, connBroken, backendBuf, nframes,
                    response_data, tokIdx, sentLog, endCalls, tokenLog,
                    connCallers, exc, libvars >>

\* if error_occurred.is_set(): return; else sleep and loop
CheckFlag ==
    /\ spc = "flag"
    /\ spc' = IF error_occurred THEN "done_signal" ELSE "drain"
    /\ UNCHANGED << api_key, sdk_available, hpc, wpc, rpc, audio_queue,
                    token_queue, error_occurred, client_state, closeCalls,
                    sink, nchunks, audio_data, token, connBroken, backendBuf,
                    nframes, response_data, tokIdx, sentLog, endCalls,
                    tokenLog, connCallers, exc, libvars >>

SendTokens == Drain \/ SendJson \/ CheckFlag

\* ------------------------------------------------------------ the backend
\* The backend sends one more frame on the open stream.
BackendDeliver ==
    /\ StreamOpen
    /\ ~connBroken
    /\ nframes < MaxFrames
    /\ \E sh \in FrameShapes :
          backendBuf' = Append(backendBuf,
                               Frame(nframes + 1, sh[1], sh[2], sh[3]))
    /\ nframes' = nframes + 1
    /\ UNCHANGED << api_key, sdk_available, hpc, wpc, rpc, spc, audio_queue,
                    token_queue, error_occurred, client_state, closeCalls,
                    sink, nchunks, audio_data, token, connBroken,
                    response_data, tokIdx, sentLog, endCalls, tokenLog,
                    connCallers, exc, libvars >>

\* The backend connection fails.
BackendBreak ==
    /\ wpc \in {"create", "open"} \/ StreamOpen
    /\ ~connBroken
    /\ connBroken' = TRUE
    /\ UNCHANGED << api_key, sdk_available, hpc, wpc, rpc, spc, audio_queue,
                    token_queue, error_occurred, client_state, closeCalls,
                    sink, nchunks, audio_data, token, backendBuf, nframes,
                    response_data, tokIdx, sentLog, endCalls, tokenLog,
                    connCallers, exc, libvars >>

Backend == BackendDeliver \/ BackendBreak

\* ----------------------------------------------------------- specification
Next == Handler \/ Worker \/ ReceiveAudio \/ SendTokens \/ Backend

Spec == Init /\ [][Next]_vars

\* The worker thread, the event loop's coroutines and the handler keep
\* running; the browser and the backend are free to stay silent.
FairSpec ==
    /\ Spec
    /\ WF_vars(Handler)
    /\ WF_vars(Worker)
    /\ WF_vars(SendTokens)
    /\ WF_vars(RecvFaultSet)

Closed == hpc \in {"closed", "rejected"}

\* ------------------------------------------------- specifications of the
\* code outside the bridge.  Each runs alone: the bridge stays in its
\* initial state and the other two components stay unused.
WebIdle == WebInit /\ api_key /\ sdk_available

SeqsUpTo(S, n) == UNION { [1..k -> S] : k \in 0..n }

\* ------------------- examples/realtime_microphone.py: the transcript loop
\* (test_transcription.py lines 43-49 is the same loop over
\* client.transcribe_file's responses).
MaxResponses == 2   \* responses the stream delivers after end_stream

Texts == {"a", "b"}
\* A token of a response: its text and its is_final flag.
Tokens == [text : Texts, is_final : BOOLEAN]
\* response.tokens of one response: up to two tokens.
ResponseTokens == SeqsUpTo(Tokens, 2)

\* full_transcript = []; for response in stream: ...
TranscriptInit ==
    /\ WebIdle
    /\ job = Unused
    /\ mic = Unused
    /\ decode = Unused
    /\ transcript \in [responses : SeqsUpTo(ResponseTokens, MaxResponses),
                       tokens : {<<>>},
                       full_transcript : {<<>>},
                       display : {<<>>},
                       received : {<<>>}]

Accumulate_All(tr, tok) == Append(tr, tok.text)

\* if token.is_final: full_transcript.append(token.text)
Accumulate(tr, tok) == IF tok.is_final THEN Append(tr, tok.text) ELSE tr

\* print(f"✓ {token.text}") for a final token, print(f"  {token.text}")
\* for a provisional one.
Printed(tok) ==
    [mark |-> IF tok.is_final THEN "final" ELSE "partial", text |-> tok.text]

\* for response in stream: the next response arrives.
NextResponse ==
    /\ transcript.tokens = <<>>
    /\ transcript.responses # <<>>
    /\ transcript' = [transcript EXCEPT
                         !.tokens = Head(transcript.responses),
                         !.responses = Tail(transcript.responses)]
    /\ UNCHANGED << webvars, mic, decode, job >>

\* for token in response.tokens: one iteration of the inner loop.
VisitToken ==
    /\ transcript.tokens # <<>>
    /\ LET tok == Head(transcript.tokens) IN
          transcript' = [transcript EXCEPT
              !.tokens = Tail(transcript.tokens),
              !.full_transcript = Accumulate(transcript.full_transcript, tok),
              !.display = Append(transcript.display, Printed(tok)),
              !.received = Append(transcript.received, tok)]
    /\ UNCHANGED << webvars, mic, decode, job >>

TranscriptNext == NextResponse \/ VisitToken

TranscriptSpec == TranscriptInit /\ [][TranscriptNext]_vars

\* ----------------------------- soniox/audio/microphone.py: MicrophoneCapture
MaxDurationMs == 50 \* longest duration passed to capture(), in milliseconds
MaxReads == 4       \* chunks read from the device before the consumer stops

\* Python's None where a number is expected (duration, total_chunks).
Absent == -1000000

\* MicrophoneCapture(sample_rate, channels, chunk_size): the default
\* configuration and three others.
DefaultConfig == << 16000, 1, 256 >>
MicConfigs == { DefaultConfig, << 16000, 2, 256 >>, << 8000, 1, 128 >>,
                << 48000, 1, 1024 >> }

\* capture(duration): None, or a number of seconds (here in milliseconds).
Durations == {Absent} \cup {-20} \cup (0..MaxDurationMs)

\* int(x) for x = n / d with d > 0: truncation towards zero.
IntTrunc(n, d) == IF n >= 0 THEN n \div d ELSE -((-n) \div d)

\* total_chunks = int(duration * self.sample_rate / self.chunk_size),
\* for a duration of ms milliseconds.
TotalChunks(ms, sr, cs) ==
    IF ms = Absent THEN Absent ELSE IntTrunc(ms * sr, 1000 * cs)

\* len(audio_data.tobytes()): stream.read(chunk_size) returns chunk_size
\* frames of `channels` int16 samples, two bytes each.
ChunkBytes(cs, ch) == cs * ch * 2

LimitReached_OffByOne(total, captured) == total # Absent /\ captured > total

\* if total_chunks is not None and chunks_captured >= total_chunks: break
LimitReached(total, captured) == total # Absent /\ captured >= total

\* mic = MicrophoneCapture(...); gen = mic.capture(duration)
MicInit ==
    /\ WebIdle
    /\ job = Unused
    /\ transcript = Unused
    /\ decode = Unused
    /\ \E cfg \in MicConfigs, d \in Durations :
          mic = [sample_rate |-> cfg[1], channels |-> cfg[2],
                 chunk_size |-> cfg[3], duration |-> d,
                 total_chunks |-> Absent, chunks_captured |-> 0,
                 nreads |-> 0, yielded |-> <<>>, pc |-> "start"]

\* First resume of the generator: total_chunks, chunks_captured = 0, and
\* sd.InputStream(...) is opened; a failure to open raises RuntimeError.
CaptureStart ==
    /\ mic.pc = "start"
    /\ \E ok \in BOOLEAN :
          mic' = [mic EXCEPT
                     !.total_chunks = TotalChunks(mic.duration, mic.sample_rate,
                                                  mic.chunk_size),
                     !.pc = IF ok THEN "loop" ELSE "failed"]
    /\ UNCHANGED << webvars, transcript, decode, job >>

\* The duration limit is reached: break, the generator returns.
CaptureBreak ==
    /\ mic.pc = "loop"
    /\ LimitReached(mic.total_chunks, mic.chunks_captured)
    /\ mic' = [mic EXCEPT !.pc = "done"]
    /\ UNCHANGED << webvars, transcript, decode, job >>

\* stream.read(self.chunk_size); tobytes(); chunks_captured += 1; yield
CaptureRead ==
    /\ mic.pc = "loop"
    /\ ~LimitReached(mic.total_chunks, mic.chunks_captured)
    /\ mic.nreads < MaxReads
    /\ mic' = [mic EXCEPT
                  !.nreads = mic.nreads + 1,
                  !.chunks_captured = mic.chunks_captured + 1,
                  !.yielded = Append(mic.yielded,
                                     ChunkBytes(mic.chunk_size, mic.channels))]
    /\ UNCHANGED << webvars, transcript, decode, job >>

\* stream.read raises: except Exception -> RuntimeError, nothing is yielded.
CaptureReadFails ==
    /\ mic.pc = "loop"
    /\ ~LimitReached(mic.total_chunks, mic.chunks_captured)
    /\ mic' = [mic EXCEPT !.pc = "failed"]
    /\ UNCHANGED << webvars, transcript, decode, job >>

\* The consumer stops iterating (KeyboardInterrupt in the example's for
\* loop): the generator is closed at its yield.
CaptureClose ==
    /\ mic.pc = "loop"
    /\ mic.yielded # <<>>
    /\ mic' = [mic EXCEPT !.pc = "closed"]
    /\ UNCHANGED << webvars, transcript, decode, job >>

MicNext ==
    CaptureStart \/ CaptureBreak \/ CaptureRead \/ CaptureReadFails
    \/ CaptureClose

MicSpec == MicInit /\ [][MicNext]_vars

\* -------------------- web/app.py lines 200-214: decoding one backend message
\* (the bridge above abstracts a frame to its number of tokens; here the
\* entries and their fields are explicit).
MaxEntries == 2     \* entries under "tokens" in one message

Keys == {"text", "is_final", "confidence"}

\* An entry of response_data["tokens"]: a dict holding some of the keys.
\* A field whose key is absent holds a filler the code must not read.
Entries ==
    { [keys |-> K, text |-> t, is_final |-> f, confidence |-> c] :
        K \in SUBSET Keys, t \in Texts, f \in BOOLEAN, c \in {95} }
IsEntry(e) ==
    /\ "text" \notin e.keys => e.text = "a"
    /\ "is_final" \notin e.keys => e.is_final = TRUE
TokenEntries == { e \in Entries : IsEntry(e) }

\* What stream.websocket.recv() returns: a str holding a JSON object with or
\* without a "tokens" list, a str json.loads rejects, the empty str, or bytes.
Messages ==
    { [kind |-> "text", has_tokens |-> TRUE, tokens |-> q] :
          q \in SeqsUpTo(TokenEntries, MaxEntries) }
    \cup { [kind |-> k, has_tokens |-> FALSE, tokens |-> <<>>] :
          k \in {"text", "malformed", "empty", "binary"} }

\* token_data.get(key, default)
Get(token_data, key, default) ==
    IF key \in token_data.keys THEN token_data[key] ELSE default

TokenEvent_FinalByDefault(token_data) ==
    [type |-> "token",
     text |-> Get(token_data, "text", ""),
     is_final |-> Get(token_data, "is_final", TRUE),
     confidence |-> Get(token_data, "confidence", None)]

\* {"type": "token", "text": token_data.get("text", ""),
\*  "is_final": token_data.get("is_final", False),
\*  "confidence": token_data.get("confidence")}
TokenEvent(token_data) ==
    [type |-> "token",
     text |-> Get(token_data, "text", ""),
     is_final |-> Get(token_data, "is_final", FALSE),
     confidence |-> Get(token_data, "confidence", None)]

\* message = stream.websocket.recv()
DecodeInit ==
    /\ WebIdle
    /\ job = Unused
    /\ transcript = Unused
    /\ mic = Unused
    /\ \E m \in Messages :
          decode = [message |-> m, idx |-> 0, token_queue |-> <<>>,
                    pc |-> "recv"]

\* if message and isinstance(message, str) is false, or json.loads raises
\* (swallowed by the inner except): nothing is put.
DecodeSkip ==
    /\ decode.pc = "recv"
    /\ decode.message.kind # "text"
    /\ decode' = [decode EXCEPT !.pc = "done"]
    /\ UNCHANGED << webvars, transcript, mic, job >>

\* response_data = json.loads(message); if "tokens" in response_data: for ...
DecodeLoads ==
    /\ decode.pc = "recv"
    /\ decode.message.kind = "text"
    /\ decode' = [decode EXCEPT
                     !.idx = 1,
                     !.pc = IF decode.message.has_tokens
                               /\ decode.message.tokens # <<>>
                            THEN "tokens" ELSE "done"]
    /\ UNCHANGED << webvars, transcript, mic, job >>

\* One iteration of for token_data in response_data["tokens"]:
\* token_queue.put({...})
DecodePut ==
    /\ decode.pc = "tokens"
    /\ LET token_data == decode.message.tokens[decode.idx] IN
          decode' = [decode EXCEPT
              !.token_queue = Put(decode.token_queue, TokenEvent(token_data)),
              !.idx = decode.idx + 1,
              !.pc = IF decode.idx < Len(decode.message.tokens)
                     THEN "tokens" ELSE "done"]
    /\ UNCHANGED << webvars, transcript, mic, job >>

DecodeNext == DecodeSkip \/ DecodeLoads \/ DecodePut

DecodeSpec == DecodeInit /\ [][DecodeNext]_vars

\* ------------- test_async_transcription.py: the polling loop of
\* transcribe_file_async (lines 65-90)
max_attempts == 60

\* transcription.status as client.transcriptions.get reports it.
PendingStatuses == {"queued", "processing"}

\* The state at line 68: attempt = 0, no status read yet.
PollInit ==
    /\ WebIdle
    /\ transcript = Unused
    /\ mic = Unused
    /\ decode = Unused
    /\ job = [attempt |-> 0, status |-> "none", queries |-> 0,
              fetched |-> FALSE, pc |-> "loop"]

\* while attempt < max_attempts
LoopCond(attempt) == attempt < max_attempts

TimedOut_Never(attempt) == FALSE

\* if attempt >= max_attempts: raise TimeoutError
TimedOut(attempt) == attempt >= max_attempts

\* One query of an iteration: transcription = client.transcriptions.get(...)
Query(st) ==
    [job EXCEPT !.status = st, !.queries = job.queries + 1]

\* status == "completed": break
PollCompleted ==
    /\ job.pc = "loop"
    /\ LoopCond(job.attempt)
    /\ job' = [Query("completed") EXCEPT !.pc = "after"]
    /\ UNCHANGED << webvars, transcript, mic, decode >>

\* status == "failed": raise Exception("Transcription failed: ...")
PollFailed ==
    /\ job.pc = "loop"
    /\ LoopCond(job.attempt)
    /\ job' = [Query("failed") EXCEPT !.pc = "raised_failed"]
    /\ UNCHANGED << webvars, transcript, mic, decode >>

\* any other status: time.sleep(1); attempt += 1
PollPending ==
    /\ job.pc = "loop"
    /\ LoopCond(job.attempt)
    /\ \E st \in PendingStatuses :
          job' = [Query(st) EXCEPT !.attempt = job.attempt + 1]
    /\ UNCHANGED << webvars, transcript, mic, decode >>

\* client.transcriptions.get raises: the exception leaves the function.
PollGetRaises ==
    /\ job.pc = "loop"
    /\ LoopCond(job.attempt)
    /\ job' = [job EXCEPT !.queries = job.queries + 1, !.pc = "raised_get"]
    /\ UNCHANGED << webvars, transcript, mic, decode >>

\* The loop condition is false: the loop ends without a break.
PollExhausted ==
    /\ job.pc = "loop"
    /\ ~LoopCond(job.attempt)
    /\ job' = [job EXCEPT !.pc = "after"]
    /\ UNCHANGED << webvars, transcript, mic, decode >>

\* if attempt >= max_attempts: raise TimeoutError("Transcription timed out")
CheckTimeout ==
    /\ job.pc = "after"
    /\ job' = [job EXCEPT !.pc = IF TimedOut(job.attempt) THEN "timeout"
                                                           ELSE "fetch"]
    /\ UNCHANGED << webvars, transcript, mic, decode >>

\* result = client.transcriptions.get_result(transcription_id)
FetchResult ==
    /\ job.pc = "fetch"
    /\ job' = [job EXCEPT !.fetched = TRUE, !.pc = "done"]
    /\ UNCHANGED << webvars, transcript, mic, decode >>

PollNext ==
    PollCompleted \/ PollFailed \/ PollPending \/ PollGetRaises
    \/ PollExhausted \/ CheckTimeout \/ FetchResult

PollSpec == PollInit /\ [][PollNext]_vars

\* ------------------------------------------------------------------ claims
IsTokenEv(e) == e.type = "token"
IsErrorEv(e) == e.type = "error"
IsPrefixOf(a, b) == Len(a) <= Len(b) /\ \A i \in 1..Len(a) : a[i] = b[i]
\* <<f1, i1>> comes before <<f2, i2>> in backend order
Before(a, b) == a[1] < b[1] \/ (a[1] = b[1] /\ a[2] < b[2])
InOrder(q) == \A i, j \in 1..Len(q) : i < j => Before(q[i].text, q[j].text)
\* The sentinel has been put on audio_queue.
SentinelEnqueued == rpc \in {"done_disconnect", "fault_set", "done_fault"}
\* The chunks the browser has sent, in the order receive_audio enqueued them.
Enqueued == [i \in 1..nchunks |-> i]

\* C1: a session accepted without the API key or without the SDK sends
\* exactly one error event to the browser and closes the socket; the worker
\* and the two coroutines are never started, no chunk is read from the
\* browser and nothing is ever put on either queue.
C1_RejectedSessionInert ==
    ~(api_key /\ sdk_available) =>
        /\ hpc \in {"accept", "rejected"}
        /\ wpc = "idle" /\ rpc = "idle" /\ spc = "idle"
        /\ nchunks = 0
        /\ audio_queue = <<>> /\ token_queue = <<>> /\ tokenLog = <<>>
        /\ connCallers = {}
        /\ hpc = "accept" => (sink = <<>> /\ closeCalls = 0)
        /\ hpc = "rejected" =>
              (Len(sink) = 1 /\ sink[1].type = "error" /\ closeCalls = 1)

C1_Witness == hpc = "rejected" /\ api_key /\ ~sdk_available /\ Len(sink) = 1

\* C2: once the worker has handled a frame whose status is "error" and is
\* back in its loop (or has left it), one error event has been put on
\* token_queue and error_occurred is set.
C2_BackendErrorReported ==
    (response_data.status = "error"
        /\ wpc \in {"guard", "get", "send_audio", "end_stream", "poll",
                    "exit", "done"})
    => (CountType(tokenLog, "error") = 1 /\ error_occurred)

\* A backend call or a decoding step of the worker is about to fail.
WorkerFaultPending ==
    \/ wpc \in {"send_audio", "end_stream", "poll"} /\ connBroken
    \/ wpc = "poll" /\ backendBuf # <<>> /\ Head(backendBuf).kind = "malformed"

\* C3: every step of the worker in which a backend call or the decoding of
\* a frame fails (send_audio / end_stream / select / recv on a broken
\* connection, json.loads on a malformed frame) enters the outer except
\* handler, which puts an error event and sets error_occurred.
C3_WorkerFaultReported ==
    [][(WorkerFaultPending /\ wpc' # wpc) => wpc' = "except"]_vars

\* C5: a worker that has returned has put the End marker (None) on
\* token_queue.
C5_WorkerPutsEndMarker == wpc = "done" => HasType(tokenLog, "none")

\* C7: at most one error event is ever delivered to the browser.
C7_AtMostOneErrorEvent == CountType(sink, "error") <= 1

C7_Witness ==
    /\ CountType(sink, "error") = 1
    /\ connBroken
    /\ rpc = "done_fault"
    /\ hpc = "closed"

C9_TokensInBackendOrder ==
    /\ InOrder(SelectSeq(sink, IsTokenEv))
    /\ IsPrefixOf(SelectSeq(sink, IsTokenEv), SelectSeq(tokenLog, IsTokenEv))

C9_Witness ==
    LET t == SelectSeq(sink, IsTokenEv) IN
    /\ Len(t) >= 3
    /\ t[1].text[1] = t[2].text[1]
    /\ t[3].text[1] > t[2].text[1]

\* C10: only the worker thread ever calls a primitive of the backend
\* connection (stream(), send_audio, end_stream, select/recv, close).
C10_OnlyWorkerDrivesConnection == connCallers \subseteq {"worker"}

C10_Witness ==
    /\ connCallers = {"worker"}
    /\ Len(sentLog) > 0 /\ endCalls = 1
    /\ HasType(sink, "token")
    /\ ReceiveAudioDone /\ SendTokensDone

\* No fault has occurred and the backend has sent nothing.
Quiet ==
    /\ ~connBroken /\ exc = "" /\ ~HasType(tokenLog, "error")
    /\ rpc \notin {"fault_set", "done_fault"}
    /\ spc # "done_fault"
    /\ nframes = 0

\* C4: after a clean disconnect of the browser, with no fault and nothing
\* pending on token_queue, the session reaches Closed (unless a fault or a
\* backend frame intervenes).
C4_DisconnectLeadsToClosed ==
    (rpc = "done_disconnect" /\ Quiet /\ token_queue = <<>> /\ token = NoToken)
        ~> (Closed \/ ~Quiet)

\* A fault has hit the worker, receive_audio or send_tokens.
FaultSeen ==
    \/ HasType(tokenLog, "error")
    \/ rpc = "done_fault"
    \/ spc = "done_fault"

\* C6: once a fault has hit the worker, receive_audio or send_tokens, the
\* session reaches Closed.
C6_FaultLeadsToClosed == FaultSeen ~> Closed

\* C11: once the worker has handled a frame whose status is "completed"
\* and is back in its loop (or has left it), the End marker (None) has been
\* put on token_queue behind the tokens of that frame.
C11_CompletedYieldsEnd ==
    (response_data.status = "completed"
        /\ wpc \in {"guard", "get", "send_audio", "end_stream", "poll",
                    "exit", "done"})
    => (HasType(tokenLog, "none")
        /\ tokenLog[Len(tokenLog)].type = "none")

\* C12: a worker that has ended the stream gracefully (end_stream returned)
\* and has returned leaves no frame with tokens unread on a healthy backend
\* connection: trailing frames are polled after end_stream.
C12_TrailingFramesDrained ==
    (wpc = "done" /\ endCalls = 1 /\ ~connBroken)
    => \A i \in 1..Len(backendBuf) : backendBuf[i].ntok = 0

\* The worker is in the send half of a loop iteration: past the loop guard
\* and not yet past the send_audio / end_stream call of that iteration.
InSendHalf == wpc \in {"get", "send_audio", "end_stream"}

\* The step in which the worker attempts send_audio or end_stream.
CallStep == wpc \in {"send_audio", "end_stream"} /\ wpc' # wpc

\* C13 (as claimed): no send_audio or end_stream call is ever attempted while
\* error_occurred is set.
C13_NoCallAfterSignal == [][CallStep => ~error_occurred]_vars

\* C13 (amended): after error_occurred is set the worker attempts at most one
\* more send_audio or end_stream call, the one of the iteration that had
\* already passed the loop guard: a call takes the worker out of the send
\* half of its iteration, and once the signal is set a worker outside the
\* send half never enters it again.
C13_AtMostOneCallAfterSignal ==
    [][/\ CallStep => ~InSendHalf'
       /\ (error_occurred /\ ~InSendHalf) => ~InSendHalf']_vars

C13_Witness ==
    /\ error_occurred
    /\ wpc = "done"
    /\ endCalls = 0
    /\ Len(sentLog) = 1
    /\ audio_queue # <<>>
    /\ exc = ""

\* C14: when the worker leaves its loop because error_occurred is set, no
\* frame with tokens is waiting at the head of a healthy backend connection:
\* a frame buffered at that moment has been read by one more poll and its
\* tokens put on token_queue.
C14_PollBeforeExit ==
    [][(wpc = "guard" /\ error_occurred /\ wpc' = "exit" /\ ~connBroken
            /\ backendBuf # <<>>)
         => Head(backendBuf).ntok = 0]_vars

\* The worker has taken the sentinel off audio_queue.
SentinelDequeued ==
    SentinelEnqueued /\ \A i \in 1..Len(audio_queue) : audio_queue[i] # None

\* C15: the sentinel (None) is only ever the last item of audio_queue; once
\* it is enqueued nothing more is enqueued (the queue only shrinks from its
\* head); once the worker has dequeued it the queue is empty and the worker
\* never returns to audio_queue.get.
C15_SentinelIsLast ==
    /\ [](\A i \in 1..Len(audio_queue) :
              audio_queue[i] = None => i = Len(audio_queue))
    /\ [](SentinelDequeued
              => (audio_queue = <<>>
                  /\ wpc \in {"end_stream", "exit", "except", "set", "done"}))
    /\ [][SentinelEnqueued
              => (audio_queue' = audio_queue
                  \/ (audio_queue # <<>> /\ audio_queue' = Rest(audio_queue)))]_vars

C15_Witness ==
    /\ SentinelDequeued
    /\ wpc = "done"
    /\ endCalls = 1
    /\ Len(sentLog) = MaxChunks

\* C16: error_occurred is monotonic: once set it is never cleared, and a
\* further set() from the worker, receive_audio, send_tokens or the finally
\* block leaves it set.
C16_SignalMonotonic == [][error_occurred => error_occurred']_vars

C16_Witness ==
    /\ error_occurred
    /\ rpc = "done_fault"
    /\ spc = "done_fault"
    /\ wpc = "done"
    /\ HasType(tokenLog, "error")
    /\ hpc = "closed"

\* C17: an error event is the last event send_tokens forwards: the step that
\* sends it to the sink ends send_tokens, a finished send_tokens never sends
\* again, and so an error event is only ever the last event of the sink.
C17_TerminalEventIsLast ==
    /\ [](\A i \in 1..Len(sink) : sink[i].type = "error" => i = Len(sink))
    /\ [][(spc = "send" /\ token.type = "error" /\ sink' # sink)
              => SendTokensDone']_vars
    /\ [][SendTokensDone => (sink' = sink /\ spc' = spc)]_vars

C17_Witness ==
    /\ spc = "done_error"
    /\ Len(sink) >= 3
    /\ sink[Len(sink)].type = "error"
    /\ sink[Len(sink) - 1].type = "token"
    /\ hpc = "closed"

\* C18: after send_tokens has stopped on a sink fault (send_json raised) and
\* has set error_occurred, in a session with no backend fault so far, the
\* worker and receive_audio both eventually stop.
C18_SinkFaultStopsAll ==
    (spc = "done_fault" /\ ~HasType(tokenLog, "error") /\ exc = "")
        ~> (wpc = "done" /\ ReceiveAudioDone)

\* The backend has faulted: the client could not be created, or the
\* connection broke.
BackendFault ==
    \/ connBroken
    \/ exc = "create"
    \/ \E i \in 1..Len(tokenLog) : tokenLog[i] = ErrorEv("create")

\* No event of type error has been put on token_queue or sent to the sink,
\* and the worker is not in its outer except branch.
NoErrorEvent ==
    /\ ~HasType(tokenLog, "error")
    /\ ~HasType(sink, "error")
    /\ wpc \notin {"except", "set"}

\* C19 (as claimed): from a clean disconnect of the browser with no fault
\* signalled so far, and as long as the backend does not fault, no error
\* event is produced and a worker that has returned has called end_stream.
C19_DisconnectEndsGracefully ==
    []((rpc = "done_disconnect" /\ ~error_occurred /\ ~BackendFault)
          => [](~BackendFault
                  => (NoErrorEvent /\ (wpc = "done" => endCalls = 1))))

\* C19 (amended): after a clean disconnect of the browser, with no backend
\* fault, no error event is put on token_queue or sent to the sink, and a
\* worker that dequeues the sentinel calls end_stream, which returns, and
\* leaves its loop.  (The worker may instead leave at the loop guard, the
\* sentinel still queued, when send_tokens has set error_occurred.)
C19_DisconnectNoErrorEvent ==
    (rpc = "done_disconnect" /\ ~BackendFault)
    => /\ NoErrorEvent
       /\ SentinelDequeued
            => (wpc \in {"end_stream", "exit", "done"}
                /\ (wpc # "end_stream" => endCalls = 1))
       /\ (wpc = "done" /\ ~SentinelDequeued) => error_occurred

C19_Witness ==
    /\ rpc = "done_disconnect"
    /\ ~BackendFault
    /\ wpc = "done"
    /\ endCalls = 1
    /\ Len(sentLog) = MaxChunks
    /\ HasType(sink, "token")
    /\ hpc = "closed"

\* C20: on a read fault receive_audio appends the sentinel (None) to
\* audio_queue, then sets error_occurred and returns; a returned
\* receive_audio does nothing more; neither step touches token_queue or the
\* sink, and with no backend fault no error event is ever produced.
C20_ReadFaultIsEndNotError ==
    /\ [][(rpc = "recv" /\ rpc' = "fault_set")
              => audio_queue' = Append(audio_queue, None)]_vars
    /\ [][rpc = "fault_set"
              => (rpc' = "fault_set" \/ (rpc' = "done_fault" /\ error_occurred'))]_vars
    /\ [][rpc = "done_fault" => rpc' = "done_fault"]_vars
    /\ [][(rpc' # rpc /\ rpc' \in {"fault_set", "done_fault"})
              => (token_queue' = token_queue /\ sink' = sink)]_vars
    /\ [](rpc = "done_fault" => error_occurred)
    /\ []((rpc \in {"fault_set", "done_fault"} /\ ~BackendFault) => NoErrorEvent)

C20_Witness ==
    /\ rpc = "done_fault"
    /\ ~BackendFault
    /\ nchunks >= 1
    /\ wpc = "done"
    /\ hpc = "closed"
    /\ HasType(sink, "token")
    /\ ~HasType(sink, "error")

\* C21: the handler reaches its finally block, and closes the browser
\* socket of a started session, only after the worker has returned and both
\* receive_audio and send_tokens have returned; the socket is never closed
\* while the worker is between opening the stream and leaving its loop.
C21_CloseAfterWorkerAndEdges ==
    /\ (hpc \in {"finally", "closed"})
          => (wpc = "done" /\ ReceiveAudioDone /\ SendTokensDone)
    /\ (closeCalls > 0 /\ hpc # "rejected")
          => (hpc = "closed" /\ wpc = "done")
    /\ closeCalls > 0
          => wpc \notin {"ready", "guard", "get", "send_audio", "end_stream",
                         "poll", "tokens", "status"}

C21_Witness ==
    /\ closeCalls = 1
    /\ hpc = "closed"
    /\ wpc = "done"
    /\ rpc = "done_fault"
    /\ Len(sentLog) >= 1
    /\ HasType(sink, "token")

\* C22: the browser socket is closed at most once; a teardown that finds the
\* socket DISCONNECTED has not called close, and the sink of a torn-down
\* session holds only events the worker enqueued, in order: teardown itself
\* has sent no terminal or error event.
C22_CloseIdempotent ==
    /\ closeCalls <= 1
    /\ (hpc = "closed" /\ client_state = "DISCONNECTED") => closeCalls = 0
    /\ (hpc = "closed" /\ client_state # "DISCONNECTED") => closeCalls = 1
    /\ hpc \in {"finally", "closed"} => IsPrefixOf(sink, tokenLog)

C22_Witness ==
    /\ hpc = "closed"
    /\ client_state = "DISCONNECTED"
    /\ closeCalls = 0
    /\ Len(sink) >= 2

\* The lifecycle state of the session, read off the program state:
\* Created until the configuration checks are over; Closed once the handler
\* has returned; Draining once the sentinel is enqueued or a fault is
\* detected (flag set, worker past its loop); Starting until the worker has
\* put the ready event; Streaming otherwise.
Phase ==
    IF hpc \in {"closed", "rejected"} THEN "Closed"
    ELSE IF hpc = "accept" THEN "Created"
    ELSE IF \/ SentinelEnqueued
            \/ error_occurred
            \/ wpc \in {"end_stream", "exit", "except", "set", "done"}
         THEN "Draining"
    ELSE IF wpc \in {"create", "open", "ready"} THEN "Starting"
    ELSE "Streaming"

Rank(ph) ==
    CASE ph = "Created" -> 1
      [] ph = "Starting" -> 2
      [] ph = "Streaming" -> 3
      [] ph = "Draining" -> 4
      [] ph = "Closed" -> 5

\* C23 (as claimed): every step keeps the lifecycle state or moves it to the
\* next one of Created, Starting, Streaming, Draining, Closed; no state is
\* skipped.
C23_NoSkippedState ==
    [][Rank(Phase') \in {Rank(Phase), Rank(Phase) + 1}]_vars

\* C23 (amended): the lifecycle state never moves backwards and Closed is
\* terminal.  Created is left for Starting when both configuration checks
\* pass, and straight for Closed when one fails; Starting is left for
\* Streaming only with the ready event put, or straight for Draining (backend
\* connection failed, or the browser went away first); Streaming is left only
\* for Draining, and Draining only for Closed.
C23_LifecycleInOrder ==
    [][/\ Rank(Phase') >= Rank(Phase)
       /\ Phase = "Created"
            => /\ Phase' \in {"Created", "Starting", "Closed"}
               /\ Phase' = "Starting" => (api_key /\ sdk_available)
               /\ Phase' = "Closed" => ~(api_key /\ sdk_available)
       /\ Phase = "Starting"
            => /\ Phase' \in {"Starting", "Streaming", "Draining"}
               /\ Phase' = "Streaming" => HasType(tokenLog', "ready")
       /\ Phase = "Streaming" => Phase' \in {"Streaming", "Draining"}
       /\ Phase = "Draining" => Phase' \in {"Draining", "Closed"}
       /\ Phase = "Closed" => Phase' = "Closed"]_vars

C23_Witness ==
    /\ Phase = "Closed"
    /\ hpc = "closed"
    /\ tokenLog = <<ErrorEv("create")>>
    /\ sink = <<ErrorEv("create")>>

\* The texts of the tokens of q whose is_final is true, in order.
RECURSIVE FinalTexts(_)
FinalTexts(q) ==
    IF q = <<>> THEN <<>>
    ELSE IF Head(q).is_final THEN <<Head(q).text>> \o FinalTexts(Tail(q))
                             ELSE FinalTexts(Tail(q))

\* C24: at every point of the loop full_transcript is exactly the texts of
\* the is_final tokens received so far, in arrival order; every received
\* token, final or provisional, has been displayed; and full_transcript only
\* grows at its end: an appended text is never changed or removed.
C24_TranscriptIsFinalSubsequence ==
    /\ [](/\ transcript.full_transcript = FinalTexts(transcript.received)
          /\ Len(transcript.display) = Len(transcript.received)
          /\ \A i \in 1..Len(transcript.received) :
                /\ transcript.display[i].text = transcript.received[i].text
                /\ transcript.display[i].mark = "final"
                       <=> transcript.received[i].is_final)
    /\ [][IsPrefixOf(transcript.full_transcript,
                     transcript'.full_transcript)]_vars

C24_Witness ==
    /\ transcript.responses = <<>>
    /\ transcript.tokens = <<>>
    /\ Len(transcript.received) = 4
    /\ transcript.received[1].is_final
    /\ ~transcript.received[2].is_final
    /\ ~transcript.received[3].is_final
    /\ transcript.received[4].is_final
    /\ transcript.full_transcript = <<"a", "b">>

\* C25: every chunk yielded by a MicrophoneCapture with the default
\* configuration (16000 Hz, 1 channel, chunk_size 256) is 4096 bytes long.
C25_DefaultChunkIs4096Bytes ==
    << mic.sample_rate, mic.channels, mic.chunk_size >> = DefaultConfig
        => \A i \in 1..Len(mic.yielded) : mic.yielded[i] = 4096

\* floor(duration x sample_rate / chunk_size) for a duration in milliseconds.
FloorChunks == (mic.duration * mic.sample_rate) \div (1000 * mic.chunk_size)

\* C30: capture never reads a chunk from the device that it does not yield;
\* with a duration (not negative) it never yields more than
\* floor(duration x sample_rate / chunk_size) chunks and, when it returns, it
\* has yielded exactly that many (none, and no device read, when that count
\* is 0); with duration None it never returns on its own.
C30_CaptureYieldsFloorChunks ==
    /\ mic.nreads = Len(mic.yielded)
    /\ mic.chunks_captured = Len(mic.yielded)
    /\ (mic.duration # Absent /\ mic.duration >= 0)
          => /\ Len(mic.yielded) <= FloorChunks
             /\ mic.pc = "done" => Len(mic.yielded) = FloorChunks
             /\ (mic.pc = "done" /\ FloorChunks = 0) => mic.nreads = 0
    /\ mic.duration = Absent => mic.pc # "done"

C30_Witness ==
    /\ mic.pc = "done"
    /\ << mic.sample_rate, mic.channels, mic.chunk_size >> = DefaultConfig
    /\ mic.duration = MaxDurationMs
    /\ Len(mic.yielded) = 3
    /\ mic.nreads = 3

\* C26: while a message is decoded the events put so far are one token event
\* per entry visited, in entry order, each with that entry's own text,
\* is_final and confidence ("" / false / None for an absent key); when the
\* decoding is over, a text message with a tokens field has produced exactly
\* one event per entry and any other message none.
C26_OneTokenEventPerEntry ==
    LET m == decode.message
        q == decode.token_queue
    IN  /\ Len(q) <= Len(m.tokens)
        /\ \A i \in 1..Len(q) :
              LET e == m.tokens[i] IN
              /\ q[i].type = "token"
              /\ q[i].text = (IF "text" \in e.keys THEN e.text ELSE "")
              /\ q[i].is_final = ("is_final" \in e.keys /\ e.is_final)
              /\ q[i].confidence =
                     (IF "confidence" \in e.keys THEN e.confidence ELSE None)
        /\ decode.pc = "done"
              => Len(q) = (IF m.kind = "text" /\ m.has_tokens
                           THEN Len(m.tokens) ELSE 0)

C26_Witness ==
    /\ decode.pc = "done"
    /\ Len(decode.token_queue) = 2
    /\ decode.message.tokens[1].keys = {"text", "is_final", "confidence"}
    /\ decode.message.tokens[1].is_final
    /\ decode.message.tokens[2].keys = {"confidence"}
    /\ ~decode.token_queue[2].is_final
    /\ decode.token_queue[2].text = ""

\* C27: when send_tokens has returned on the termination signal while the
\* browser is still connected and receive_audio is still reading (so only
\* the worker can have set the signal), no error event of the worker is left
\* undelivered on token_queue.
C27_ErrorEventDelivered ==
    (spc = "done_signal" /\ rpc = "recv" /\ client_state = "CONNECTED")
        => ~HasType(token_queue, "error")

\* C28: a worker step that finds audio_queue empty (the get times out) goes
\* on to the receive poll of the same iteration, and a poll that finds no
\* frame on a healthy connection goes back to the loop guard; neither step
\* puts anything on token_queue, raises, or sets error_occurred.
C28_EmptyIsNotFatal ==
    [][/\ (wpc = "get" /\ audio_queue = <<>> /\ wpc' # wpc)
            => (wpc' = "poll" /\ UNCHANGED << tokenLog, token_queue,
                                              error_occurred, exc >>)
       /\ (wpc = "poll" /\ backendBuf = <<>> /\ ~connBroken /\ wpc' # wpc)
            => (wpc' = "guard" /\ UNCHANGED << tokenLog, token_queue,
                                               error_occurred, exc >>)]_vars

C28_Witness ==
    /\ wpc = "guard"
    /\ ~error_occurred
    /\ audio_queue = <<>>
    /\ nchunks = 0
    /\ rpc = "recv"
    /\ HasType(sink, "token")
    /\ ~HasType(tokenLog, "error")

\* The worker's start-up failed: SonioxRealtimeClient(...) or client.stream()
\* raised.
StartupFailed ==
    \/ exc \in {"create", "open"}
    \/ \E i \in 1..Len(tokenLog) :
          tokenLog[i] \in {ErrorEv("create"), ErrorEv("open")}

\* C29: the ready event is put at most once, as the first item of
\* token_queue (so before any token event) and only by a worker that is past
\* opening the stream; when start-up fails no ready event is ever put, and
\* the worker returns having put exactly one item, the error event.
C29_ReadyOnceAfterOpen ==
    /\ CountType(tokenLog, "ready") <= 1
    /\ \A i \in 1..Len(tokenLog) : tokenLog[i].type = "ready" => i = 1
    /\ HasType(tokenLog, "token") => tokenLog[1] = ReadyEv
    /\ HasType(tokenLog, "ready") => wpc \notin {"idle", "create", "open", "ready"}
    /\ StartupFailed => ~HasType(tokenLog, "ready")
    /\ (wpc = "done" /\ ~HasType(tokenLog, "ready"))
          => tokenLog \in {<<ErrorEv("create")>>, <<ErrorEv("open")>>}

C29_Witness ==
    /\ wpc = "done"
    /\ Len(tokenLog) >= 3
    /\ tokenLog[1] = ReadyEv
    /\ tokenLog[2].type = "token"
    /\ tokenLog[Len(tokenLog)].type = "error"
    /\ sink # <<>>

\* C31: the polling loop makes at most max_attempts (60) status queries; it
\* goes on to fetch the result only with status completed as the last status
\* read; a status failed raises at once; TimeoutError is raised exactly after
\* max_attempts non-terminal statuses in a row; and no result is ever fetched
\* for a job not seen completed.
C31_PollingLoopBounded ==
    /\ job.queries <= max_attempts
    /\ job.attempt <= max_attempts
    /\ job.queries \in {job.attempt, job.attempt + 1}
    /\ job.pc \in {"fetch", "done"} => job.status = "completed"
    /\ job.fetched => (job.status = "completed" /\ job.pc = "done")
    /\ job.status = "failed" <=> job.pc = "raised_failed"
    /\ job.pc = "timeout"
          => /\ job.attempt = max_attempts
             /\ job.queries = max_attempts
             /\ job.status \in PendingStatuses
    /\ (job.pc = "loop" /\ job.queries > 0) => job.status \in PendingStatuses

C31_Witness ==
    /\ job.pc = "done"
    /\ job.fetched
    /\ job.queries = max_attempts
    /\ job.attempt = max_attempts - 1

====
